---- MODULE Spec2Model ----
(***************************************************************************)
(* Model of the project-board -> issue_tracker synchroniser                *)
(* (src/sync-project-items.js, paginated variant, lines 225-455; the      *)
(* earlier upsert variant of the projector is src/unnamed/part_000).       *)
(*                                                                         *)
(* Time is counted in minutes.  A stored timestamp is the instant that the *)
(* ISO string written by the program denotes.                              *)
(***************************************************************************)
EXTENDS Integers, Sequences, FiniteSets, TLC

(* ------------------------------------------------------------------ *)
(* Bounds of the model                                                  *)
(* ------------------------------------------------------------------ *)
NumKeys == 2          \* issue numbers 1..NumKeys
MaxRuns == 4          \* lifecycle scope: runs of main(), one item each
MaxFail == 1          \* failures (fetch, read, write) injected per behaviour
PagMaxPages == 3      \* pagination scope: pages per collection
PagMaxPageLen == 2    \* pagination scope: items per page
ProjMaxRuns == 2      \* projection scope: runs of main(), one item each
KeyMaxRuns == 2       \* key scope: runs of main(), two pages of one item each
MainProjects == 2     \* orchestration scope: collections in the configured list
RaceMaxRuns == 3      \* overlap scope: runs of main(), two at a time
SeedMaxRuns == 2      \* pre-existing-row scope: runs of main(), one item each

(* ------------------------------------------------------------------ *)
(* Program constants                                                    *)
(* ------------------------------------------------------------------ *)
IST_OFFSET_MIN == 330
GRACE_MIN == 10
projectNumbers == <<12>>

(* Encodings of JavaScript's absent values, one per value type.        *)
Undef == "undefined"           \* undefined / null string-valued property
NullTime == 0 - 1              \* NULL timestamp column / absent createdAt
UnknownTime == 0 - 2           \* the string "Unknown" written to created_at
NullContent == [absent |-> TRUE]   \* item.content === null
NoAssignees == <<"null">>      \* content.assignees absent
NoNode == [field |-> Undef, text |-> Undef, name |-> Undef, date |-> Undef]
NAKey == 0                     \* the string "N/A" used as issue number
NullCursor == 0                \* cursor = null (start of collection)

Keys == 1..NumKeys
Runs == {1, 2}

(* ------------------------------------------------------------------ *)
(* Source items                                                         *)
(* ------------------------------------------------------------------ *)
TextNode(f, v) == [field |-> f, text |-> v, name |-> Undef, date |-> Undef]
SelectNode(f, v) == [field |-> f, text |-> Undef, name |-> v, date |-> Undef]

Issue(k, as) ==
  [absent |-> FALSE, title |-> "T", number |-> k, url |-> k, createdAt |-> 0,
   createdAtIST |-> NullTime, assignees |-> as]
Item(c, fv) == [content |-> c, fieldValues |-> fv]

Falsy(v) == v = Undef \/ v = ""

\* Array.prototype.find: the first node satisfying the predicate, else undefined
RECURSIVE FindField(_, _)
FindField(nodes, label) ==
  IF nodes = <<>> THEN NoNode
  ELSE IF Head(nodes).field = label THEN Head(nodes)
  ELSE FindField(Tail(nodes), label)

\* x || d
OrElse(v, d) == IF Falsy(v) THEN d ELSE v

(* ------------------------------------------------------------------ *)
(* Field projection, lines 353-367                                      *)
(* ------------------------------------------------------------------ *)
\* item.content.assignees dereferences item.content without a guard (line 367)
ProjectThrows(item) == item.content = NullContent

MapAssignees(item) ==
  IF item.content.assignees # NoAssignees THEN item.content.assignees
  ELSE <<"Unassigned">>

SlotNameNoDefault(item, label, d) == FindField(item.fieldValues, label).name

SlotText(item, label, d) == OrElse(FindField(item.fieldValues, label).text, d)
SlotName(item, label, d) == OrElse(FindField(item.fieldValues, label).name, d)

\* the locals computed at the head of the loop body; evaluated only when
\* ProjectThrows(item) is false
ProjectItem(item) ==
  [issueNumber  |-> IF item.content # NullContent THEN item.content.number ELSE NAKey,
   issueUrl     |-> IF item.content # NullContent THEN item.content.url ELSE NAKey,
   createdAtIST |-> IF item.content # NullContent /\ item.content.createdAtIST # NullTime
                    THEN item.content.createdAtIST ELSE UnknownTime,
   issueTitle   |-> SlotText(item, "Title", "No Title"),
   priority     |-> SlotName(item, "Priority", "No Priority"),
   issueType    |-> SlotName(item, "Issue Type", "No Issue Type"),
   createdBy    |-> SlotText(item, "Created by", "Unknown"),
   appName      |-> SlotName(item, "App Name", "N/A"),
   buildType    |-> SlotName(item, "Build Type", "N/A"),
   buildVersion |-> SlotText(item, "Build Version", "N/A"),
   deviceType   |-> SlotName(item, "Device Type", "N/A"),
   status       |-> SlotName(item, "Status", "No Status"),
   assignees    |-> MapAssignees(item)]

(* ------------------------------------------------------------------ *)
(* Timestamps, lines 336-343 and 369-371                                *)
(* ------------------------------------------------------------------ *)
\* new Date(utc.getTime() + 330 * 60 * 1000).toISOString(): the instant the
\* resulting "...Z" string denotes
\* Date.prototype.toISOString(): the UTC reading of the Date, with the
\* designation Z
ToISOString(ms) == [wall |-> ms, offset |-> 0]
\* the instant an ISO 8601 string denotes
InstantOf(iso) == iso.wall - iso.offset

ToIST(t) == InstantOf(ToISOString(t + IST_OFFSET_MIN))
AdjustedTime(now) == ToIST(now) - GRACE_MIN

\* the callback of allNodes.map
AddCreatedAtIST(item) ==
  IF item.content # NullContent /\ item.content.createdAt # NullTime
  THEN [item EXCEPT !.content.createdAtIST = ToIST(item.content.createdAt)]
  ELSE item

MapItems(nodes) == [i \in 1..Len(nodes) |-> AddCreatedAtIST(nodes[i])]

(* ------------------------------------------------------------------ *)
(* Write payload, lines 384-409 and 423-424                             *)
(* ------------------------------------------------------------------ *)
NoFields == [x \in {} |-> Undef]
Field(name, v) == [x \in {name} |-> v]
Opt(c, name, v) == IF c THEN Field(name, v) ELSE NoFields
\* object with the properties of f, then those of g assigned over them
Assign(f, g) == [x \in DOMAIN f \cup DOMAIN g |-> IF x \in DOMAIN g THEN g[x] ELSE f[x]]

NoRow == [absent |-> TRUE]     \* data: null

IncludeStatusOnInsert(existingIssue, status) == existingIssue = NoRow

IncludeStatusAlways(existingIssue, status) == TRUE

IncludeStatus(existingIssue, status) ==
  existingIssue = NoRow \/ existingIssue.status # status

IncludeStartTimeOnEdge(existingIssue, status) ==
  status = "In progress" /\ (existingIssue = NoRow \/ existingIssue.status # status)

IncludeStartTimeAnyRun(existingIssue, status) == status = "In progress"

IncludeStartTime(existingIssue, status) ==
  status = "In progress" /\ (existingIssue = NoRow \/ existingIssue.start_time = NullTime)

IncludeEndTimeAfterStart(existingIssue, status) ==
  /\ status = "Done"
  /\ existingIssue # NoRow
  /\ existingIssue.start_time # NullTime /\ existingIssue.end_time = NullTime

IncludeEndTimeAnyRun(existingIssue, status) == status = "Done"

IncludeEndTime(existingIssue, status) ==
  status = "Done" /\ (existingIssue = NoRow \/ existingIssue.end_time = NullTime)

BasePayloadWithKey(rec) ==
  [issue_title |-> rec.issueTitle, issue_url |-> rec.issueUrl, assignees |-> rec.assignees,
   priority |-> rec.priority, issue_type |-> rec.issueType, created_by |-> rec.createdBy,
   app_name |-> rec.appName, build_type |-> rec.buildType,
   build_version |-> rec.buildVersion, device_type |-> rec.deviceType,
   created_at |-> rec.createdAtIST, issue_number |-> rec.issueNumber]

\* updateData as initialised at lines 384-396
BasePayload(rec) ==
  [issue_title |-> rec.issueTitle, issue_url |-> rec.issueUrl, assignees |-> rec.assignees,
   priority |-> rec.priority, issue_type |-> rec.issueType, created_by |-> rec.createdBy,
   app_name |-> rec.appName, build_type |-> rec.buildType,
   build_version |-> rec.buildVersion, device_type |-> rec.deviceType,
   created_at |-> rec.createdAtIST]

\* updateData as it stands at line 410
UpdateData(rec, existingIssue, now) ==
  LET a == Assign(BasePayload(rec),
                  Opt(IncludeStatus(existingIssue, rec.status), "status", rec.status))
      b == Assign(a, Opt(IncludeStatus(existingIssue, rec.status), "updated_at", ToIST(now)))
      c == Assign(b, Opt(IncludeStartTime(existingIssue, rec.status), "start_time",
                         AdjustedTime(now)))
  IN Assign(c, Opt(IncludeEndTime(existingIssue, rec.status), "end_time", AdjustedTime(now)))

InsertDataNoKey(rec, now) ==
  Assign(UpdateData(rec, NoRow, now), Field("updated_at", ToIST(now)))

\* the object passed to insert, lines 423-424
InsertData(rec, now) ==
  Assign(Assign(UpdateData(rec, NoRow, now), Field("updated_at", ToIST(now))),
         Field("issue_number", rec.issueNumber))

(* ------------------------------------------------------------------ *)
(* The issue_tracker table                                              *)
(* ------------------------------------------------------------------ *)
TimeColumns == {"start_time", "end_time", "updated_at", "created_at"}
Columns ==
  {"issue_number", "issue_title", "issue_url", "assignees", "status", "priority",
   "issue_type", "created_by", "app_name", "build_type", "build_version",
   "device_type"} \cup TimeColumns

\* insert([updateData]): columns missing from the object are NULL
InsertRow(data) ==
  [c \in Columns |-> IF c \in DOMAIN data THEN data[c]
                     ELSE IF c \in TimeColumns THEN NullTime ELSE Undef]

\* update(updateData): only the columns of the object are assigned
UpdateRow(row, data) ==
  [c \in Columns |-> IF c \in DOMAIN data THEN data[c] ELSE row[c]]

SelectSingleNotFound(rows) == NoRow

\* select('issue_number, start_time, end_time, updated_at, status') ... .single():
\* the row when exactly one matches, else data: null with code PGRST116
SelectSingle(rows) ==
  IF Len(rows) = 1
  THEN [issue_number |-> rows[1].issue_number, start_time |-> rows[1].start_time,
        end_time |-> rows[1].end_time, updated_at |-> rows[1].updated_at,
        status |-> rows[1].status]
  ELSE NoRow

(* ------------------------------------------------------------------ *)
(* Scopes: the items the source serves and the size of a behaviour      *)
(* ------------------------------------------------------------------ *)
StatusNodes == {<<>>, <<SelectNode("Status", "In progress")>>, <<SelectNode("Status", "Done")>>}

NullItem == Item(NullContent, <<>>)

LifeItems == {Item(Issue(1, <<"alice">>), fv) : fv \in StatusNodes} \cup {NullItem}

\* lifecycle scope: successive runs, each over a collection of one page with
\* at most one item
LifeScope ==
  [items |-> LifeItems, maxRuns |-> MaxRuns, maxPages |-> 1, maxPageLen |-> 1,
   projectNumbers |-> projectNumbers]

PagItems == {Item(Issue(1, <<"alice">>), <<>>), NullItem}

\* pagination scope: one run over a collection of several pages
PagScope ==
  [items |-> PagItems, maxRuns |-> 1, maxPages |-> PagMaxPages, maxPageLen |-> PagMaxPageLen,
   projectNumbers |-> projectNumbers]

\* String.prototype.toLowerCase on the field names the source serves
ToLowerCase(s) ==
  CASE s \in {"Status", "STATUS"} -> "status"
    [] s \in {"Priority", "PRIORITY"} -> "priority"
    [] s \in {"Issue Type", "ISSUE TYPE"} -> "issue type"
    [] s \in {"Created by", "CREATED BY"} -> "created by"
    [] s \in {"App Name", "APP NAME"} -> "app name"
    [] s \in {"Build Type", "BUILD TYPE"} -> "build type"
    [] s \in {"Build Version", "BUILD VERSION"} -> "build version"
    [] s \in {"Device Type", "DEVICE TYPE"} -> "device type"
    [] s \in {"Other", "OTHER"} -> "other"
    [] OTHER -> s

\* the custom-field slots: label as the code spells it, the local it is
\* projected into, the column it is written to, the payload property read,
\* and the default
Slots ==
  { [label |-> "Status", local |-> "status", column |-> "status", kind |-> "name",
     default |-> "No Status"],
    [label |-> "Priority", local |-> "priority", column |-> "priority", kind |-> "name",
     default |-> "No Priority"],
    [label |-> "Issue Type", local |-> "issueType", column |-> "issue_type", kind |-> "name",
     default |-> "No Issue Type"],
    [label |-> "Created by", local |-> "createdBy", column |-> "created_by", kind |-> "text",
     default |-> "Unknown"],
    [label |-> "App Name", local |-> "appName", column |-> "app_name", kind |-> "name",
     default |-> "N/A"],
    [label |-> "Build Type", local |-> "buildType", column |-> "build_type", kind |-> "name",
     default |-> "N/A"],
    [label |-> "Build Version", local |-> "buildVersion", column |-> "build_version",
     kind |-> "text", default |-> "N/A"],
    [label |-> "Device Type", local |-> "deviceType", column |-> "device_type",
     kind |-> "name", default |-> "N/A"] }

UpperCases ==
  [Status |-> "STATUS", Priority |-> "PRIORITY"] @@
  ("Issue Type" :> "ISSUE TYPE") @@ ("Created by" :> "CREATED BY") @@
  ("App Name" :> "APP NAME") @@ ("Build Type" :> "BUILD TYPE") @@
  ("Build Version" :> "BUILD VERSION") @@ ("Device Type" :> "DEVICE TYPE")

CaseVariants(label) == {label, ToLowerCase(label), UpperCases[label]}

SlotNode(sl, fname, v) == IF sl.kind = "text" THEN TextNode(fname, v) ELSE SelectNode(fname, v)

\* items for the projector: without any recognised field (with and without
\* an assignee list, and without content), and with one field in each case
\* variant of each label
ProjItems ==
  {Item(Issue(1, as), fv) : as \in {<<"alice">>, NoAssignees},
                            fv \in {<<>>, <<TextNode("Other", "x")>>, <<NoNode>>}}
    \cup {NullItem}
    \cup UNION {{Item(Issue(1, <<"alice">>), <<SlotNode(sl, fname, "In progress")>>) :
                   fname \in CaseVariants(sl.label)} : sl \in Slots}

\* projection scope: successive runs, each over a collection of one page with
\* at most one item
ProjScope ==
  [items |-> ProjItems, maxRuns |-> ProjMaxRuns, maxPages |-> 1, maxPageLen |-> 1,
   projectNumbers |-> projectNumbers]

KeyItems == {Item(Issue(k, <<"alice">>), <<>>) : k \in {1, 2}} \cup {NullItem}

\* key scope: successive runs, each over a collection of at most two pages
\* of at most one item, over two issue numbers
KeyScope ==
  [items |-> KeyItems, maxRuns |-> KeyMaxRuns, maxPages |-> 2, maxPageLen |-> 1,
   projectNumbers |-> projectNumbers]

\* orchestration scope: one run over a configured list of MainProjects
\* collections, 12, 13, ...
MainScope ==
  [items |-> PagItems, maxRuns |-> 1, maxPages |-> 1, maxPageLen |-> 2,
   projectNumbers |-> [n \in 1..MainProjects |-> projectNumbers[1] + n - 1]]

RaceItems ==
  {Item(Issue(1, <<"alice">>), fv) : fv \in {<<>>, <<SelectNode("Status", "In progress")>>}}
    \cup {NullItem}

\* overlap scope: runs that may execute two at a time, each over a collection
\* of one page with at most one item
RaceScope ==
  [items |-> RaceItems, maxRuns |-> RaceMaxRuns, maxPages |-> 1, maxPageLen |-> 1,
   projectNumbers |-> projectNumbers]

\* pre-existing-row scope: as the lifecycle scope, over a table that holds a
\* row when the first run starts
SeedScope ==
  [items |-> LifeItems, maxRuns |-> SeedMaxRuns, maxPages |-> 1, maxPageLen |-> 1,
   projectNumbers |-> projectNumbers]

\* a row of issue 1 that this program did not write: status "In progress",
\* every timestamp NULL
SeedRow ==
  InsertRow(Assign(BasePayload(ProjectItem(AddCreatedAtIST(
                     Item(Issue(1, <<"alice">>), <<SelectNode("Status", "In progress")>>)))),
                   [status |-> "In progress", issue_number |-> 1]))

PagesOf(c) == UNION {[1..n -> c.items] : n \in 0..c.maxPageLen}

(* ------------------------------------------------------------------ *)
(* State                                                                *)
(* ------------------------------------------------------------------ *)
VARIABLES
  store,     \* issue_tracker: issue number -> the rows carrying it
  clock,     \* the wall clock (new Date()), in minutes
  run,       \* per run of main(): program counter and locals
  overlap,   \* whether two runs may execute at the same time
  cfg,       \* the scope of the behaviour
  started,   \* runs started so far
  fails,     \* failures injected so far
  lastWrite, \* the most recent insert or update request
  synced,    \* per issue number, the record of its last successful write
  scen,      \* per issue number, its writes while they follow Scenario
  observed   \* per issue number, the statuses of its successful writes

vars == <<store, clock, run, overlap, cfg, started, fails, lastWrite, synced, scen, observed>>

NoRec == [absent |-> TRUE]
NoWrite ==
  [op |-> "none", key |-> NAKey, item |-> NullItem, rec |-> NoRec, again |-> FALSE,
   status |-> Undef, data |-> NoFields, ok |-> FALSE, before |-> <<>>]

\* process.env as the program reads it (lines 232-234): a value, the empty
\* string, or undefined
EnvNames == {"PAT", "SUPABASE_URL", "SUPABASE_KEY"}
Envs == [EnvNames -> {"v", "", Undef}]
NoEnv == [n \in EnvNames |-> Undef]

ConfigOkTokenOnly(env) == ~Falsy(env["PAT"])

\* the negation of the condition at line 236
ConfigOk(env) ==
  ~(Falsy(env["PAT"]) \/ Falsy(env["SUPABASE_URL"]) \/ Falsy(env["SUPABASE_KEY"]))

NoExit == 0 - 1                \* the process has not ended

IdleRun ==
  [pc |-> "idle", p |-> 0, allNodes |-> <<>>, hasNextPage |-> FALSE, cursor |-> NullCursor,
   items |-> <<>>, i |-> 0, rec |-> NoRec, now |-> 0, existingIssue |-> NoRow,
   fetchLog |-> <<>>, fetchFailed |-> FALSE, threw |-> FALSE, ops |-> <<>>,
   env |-> NoEnv, exitCode |-> NoExit, visited |-> <<>>, caught |-> {}]

\* the locals of fetchAllProjectItems at line 313-315, for collection p
BeginFetch(p) ==
  [IdleRun EXCEPT !.pc = "fetch", !.p = p, !.hasNextPage = TRUE]

\* the statuses of the end-to-end scenario, run by run
Scenario == <<"In progress", "In progress", "Done">>
Off == <<[status |-> "off"]>>

InitCommon ==
  /\ store = [k \in Keys |-> <<>>]
  /\ clock = 0
  /\ run = [r \in Runs |-> IdleRun]
  /\ started = 0
  /\ fails = 0
  /\ lastWrite = NoWrite
  /\ synced = [k \in Keys |-> NoRec]
  /\ scen = [k \in Keys |-> <<>>]
  /\ observed = [k \in Keys |-> {}]

Init ==
  /\ InitCommon
  /\ overlap = FALSE
  /\ cfg = LifeScope

InitPag ==
  /\ InitCommon
  /\ overlap = FALSE
  /\ cfg = PagScope

InitProj ==
  /\ InitCommon
  /\ overlap = FALSE
  /\ cfg = ProjScope

InitSeed ==
  /\ store \in {[k \in Keys |-> <<>>], [k \in Keys |-> IF k = 1 THEN <<SeedRow>> ELSE <<>>]}
  /\ clock = 0
  /\ run = [r \in Runs |-> IdleRun]
  /\ started = 0
  /\ fails = 0
  /\ lastWrite = NoWrite
  /\ synced = [k \in Keys |-> NoRec]
  /\ scen = [k \in Keys |-> <<>>]
  /\ observed = [k \in Keys |-> {}]
  /\ overlap = FALSE
  /\ cfg = SeedScope

InitKey ==
  /\ InitCommon
  /\ overlap = FALSE
  /\ cfg = KeyScope

InitMain ==
  /\ InitCommon
  /\ overlap = FALSE
  /\ cfg = MainScope

InitRace ==
  /\ InitCommon
  /\ overlap = TRUE
  /\ cfg = RaceScope

(* ------------------------------------------------------------------ *)
(* main, lines 439-454                                                  *)
(* ------------------------------------------------------------------ *)
\* a process starts with its configuration complete and enters main's loop
Start(r) ==
  /\ run[r].pc \in {"idle", "done", "exited"}
  /\ started < cfg.maxRuns
  /\ overlap \/ r = 1
  /\ started' = started + 1
  /\ \E env \in Envs :
       /\ ConfigOk(env)
       /\ run' = [run EXCEPT ![r] = [BeginFetch(1) EXCEPT !.env = env, !.visited = <<1>>]]
  /\ UNCHANGED <<store, clock, overlap, cfg, fails, lastWrite, synced, scen, observed>>

\* lines 236-239: a process starts with a configuration value missing
ConfigExit(r) ==
  /\ run[r].pc \in {"idle", "done", "exited"}
  /\ started < cfg.maxRuns
  /\ overlap \/ r = 1
  /\ started' = started + 1
  /\ \E env \in Envs :
       /\ ~ConfigOk(env)
       /\ run' = [run EXCEPT ![r] = [IdleRun EXCEPT !.pc = "exited", !.env = env,
                                                    !.exitCode = 1]]
  /\ UNCHANGED <<store, clock, overlap, cfg, fails, lastWrite, synced, scen, observed>>

NextProjectExitOnError(r) ==
  /\ run[r].pc = "next"
  /\ LET failed == run[r].fetchFailed \/ run[r].threw
         caught == run[r].caught \cup (IF failed THEN {run[r].p} ELSE {}) IN
     run' = [run EXCEPT ![r] =
               IF ~failed /\ run[r].p < Len(cfg.projectNumbers)
               THEN [BeginFetch(run[r].p + 1) EXCEPT
                       !.env = run[r].env, !.caught = caught,
                       !.visited = Append(run[r].visited, run[r].p + 1)]
               ELSE [IdleRun EXCEPT !.pc = "done", !.env = run[r].env,
                                    !.exitCode = IF failed THEN 1 ELSE 0,
                                    !.caught = caught, !.visited = run[r].visited]]
  /\ UNCHANGED <<store, clock, overlap, cfg, started, fails, lastWrite, synced, scen, observed>>

\* the next iteration of for (const projectNumber of projectNumbers), or the
\* end of main and of the process
NextProject(r) ==
  /\ run[r].pc = "next"
  /\ LET caught == run[r].caught \cup
                      (IF run[r].fetchFailed \/ run[r].threw THEN {run[r].p} ELSE {}) IN
     run' = [run EXCEPT ![r] =
               IF run[r].p < Len(cfg.projectNumbers)
               THEN [BeginFetch(run[r].p + 1) EXCEPT
                       !.env = run[r].env, !.caught = caught,
                       !.visited = Append(run[r].visited, run[r].p + 1)]
               ELSE [IdleRun EXCEPT !.pc = "done", !.env = run[r].env, !.exitCode = 0,
                                    !.caught = caught, !.visited = run[r].visited]]
  /\ UNCHANGED <<store, clock, overlap, cfg, started, fails, lastWrite, synced, scen, observed>>

(* ------------------------------------------------------------------ *)
(* fetchAllProjectItems, lines 313-344                                  *)
(* ------------------------------------------------------------------ *)
TakePagePrepended(rs, nodes, more, endCursor) ==
  [rs EXCEPT !.allNodes = nodes \o @, !.hasNextPage = more, !.cursor = endCursor]

\* what the loop body does with a response (lines 326-329)
TakePage(rs, nodes, more, endCursor) ==
  [rs EXCEPT !.allNodes = @ \o nodes, !.hasNextPage = more, !.cursor = endCursor]

\* one iteration of while (hasNextPage) whose request succeeds
FetchPage(r) ==
  /\ run[r].pc = "fetch"
  /\ run[r].hasNextPage
  /\ \E nodes \in PagesOf(cfg), more \in BOOLEAN :
       /\ more => Len(run[r].fetchLog) + 1 < cfg.maxPages
       /\ LET endCursor == Len(run[r].fetchLog) + 1 IN
          run' = [run EXCEPT ![r] =
                    [TakePage(@, nodes, more, endCursor) EXCEPT
                       !.fetchLog = Append(@, [cursor |-> run[r].cursor,
                                               nodes |-> nodes,
                                               endCursor |-> endCursor])]]
  /\ UNCHANGED <<store, clock, overlap, cfg, started, fails, lastWrite, synced, scen, observed>>

AfterFetchErrorSwallowed(rs) == [rs EXCEPT !.hasNextPage = FALSE]

\* where control goes when a request rejects: rethrown at line 332, caught
\* at line 448
AfterFetchError(rs) == [rs EXCEPT !.pc = "next", !.allNodes = <<>>]

FetchFail(r) ==
  /\ run[r].pc = "fetch"
  /\ run[r].hasNextPage
  /\ fails < MaxFail
  /\ fails' = fails + 1
  /\ run' = [run EXCEPT ![r] =
               [AfterFetchError(@) EXCEPT
                  !.fetchFailed = TRUE,
                  !.fetchLog = Append(@, [cursor |-> run[r].cursor, nodes |-> <<>>,
                                          endCursor |-> NullCursor])]]
  /\ UNCHANGED <<store, clock, overlap, cfg, started, lastWrite, synced, scen, observed>>

\* the loop has ended: return allNodes.map(...), then the head of
\* syncProjectItemsToSupabase (lines 347-350)
FetchReturn(r) ==
  /\ run[r].pc = "fetch"
  /\ ~run[r].hasNextPage
  /\ run' = [run EXCEPT ![r] =
               [@ EXCEPT !.items = MapItems(run[r].allNodes),
                         !.i = 1,
                         !.pc = IF Len(run[r].allNodes) = 0 THEN "next" ELSE "sync"]]
  /\ UNCHANGED <<store, clock, overlap, cfg, started, fails, lastWrite, synced, scen, observed>>

(* ------------------------------------------------------------------ *)
(* syncProjectItemsToSupabase, lines 352-436                            *)
(* ------------------------------------------------------------------ *)
AtItem(r) == run[r].pc = "sync" /\ run[r].i <= Len(run[r].items)
CurItem(r) == run[r].items[run[r].i]

\* continue / end of the loop body: on to the next item
Advance(rs) == [rs EXCEPT !.pc = "sync", !.i = @ + 1, !.rec = NoRec, !.now = 0,
                          !.existingIssue = NoRow]

\* where control goes after a failed read (lines 379-382)
AfterReadError(rs) == Advance(rs)

\* where control goes after a failed write (lines 417-418, 430-431)
AfterWriteError(rs) == Advance(rs)

\* line 367 throws a TypeError: it leaves the loop and the function and is
\* caught at line 448
ProjectThrow(r) ==
  /\ AtItem(r)
  /\ ProjectThrows(CurItem(r))
  /\ run' = [run EXCEPT ![r] = [@ EXCEPT !.pc = "next", !.threw = TRUE]]
  /\ UNCHANGED <<store, clock, overlap, cfg, started, fails, lastWrite, synced, scen, observed>>

\* lines 353-377: projection, new Date(), and the read, which answers
ReadExisting(r) ==
  /\ AtItem(r)
  /\ ~ProjectThrows(CurItem(r))
  /\ LET rec == ProjectItem(CurItem(r))
         existingIssue == SelectSingle(store[rec.issueNumber]) IN
       run' = [run EXCEPT ![r] =
                 [@ EXCEPT !.pc = "write", !.rec = rec, !.now = clock,
                           !.existingIssue = existingIssue,
                           !.ops = Append(@, [op |-> "read", i |-> run[r].i,
                                              key |-> rec.issueNumber, ok |-> TRUE])]]
  /\ clock' = clock + 1
  /\ UNCHANGED <<store, overlap, cfg, started, fails, lastWrite, synced, scen, observed>>

\* lines 353-382: the read fails with a code other than PGRST116: continue
ReadFail(r) ==
  /\ AtItem(r)
  /\ ~ProjectThrows(CurItem(r))
  /\ fails < MaxFail
  /\ fails' = fails + 1
  /\ LET rec == ProjectItem(CurItem(r)) IN
       run' = [run EXCEPT ![r] =
                 AfterReadError([@ EXCEPT !.ops = Append(@, [op |-> "read", i |-> run[r].i,
                                                             key |-> rec.issueNumber,
                                                             ok |-> FALSE])])]
  /\ clock' = clock + 1
  /\ UNCHANGED <<store, overlap, cfg, started, lastWrite, synced, scen, observed>>

\* the scenario monitor: a write extends scen[k] while the writes for k are
\* successful and observe the statuses of Scenario in order, from no record
Follow(h, w) ==
  IF h # Off /\ Len(h) < Len(Scenario) /\ w.ok /\ w.status = Scenario[Len(h) + 1]
     /\ (Len(h) = 0 => w.before = <<>>)
  THEN Append(h, w) ELSE Off

\* lines 411-421 (existing record) and 422-435 (no record): the write
WriteRecord(r, ok) ==
  LET rs == run[r]
      k == rs.rec.issueNumber
      exists == rs.existingIssue # NoRow
      data == IF exists THEN UpdateData(rs.rec, rs.existingIssue, rs.now)
              ELSE InsertData(rs.rec, rs.now)
      w == [op |-> IF exists THEN "update" ELSE "insert", key |-> k,
            item |-> rs.items[rs.i], rec |-> rs.rec, again |-> (rs.rec = synced[k]),
            status |-> rs.rec.status, data |-> data, ok |-> ok, before |-> store[k]]
      done == [rs EXCEPT !.ops = Append(@, [op |-> w.op, i |-> rs.i, key |-> k, ok |-> ok])]
  IN
  /\ rs.pc = "write"
  /\ store' = IF ~ok THEN store
              ELSE IF exists
              THEN [store EXCEPT ![k] = [j \in 1..Len(@) |-> UpdateRow(@[j], data)]]
              ELSE [store EXCEPT ![k] = Append(@, InsertRow(data))]
  /\ run' = [run EXCEPT ![r] = IF ok THEN Advance(done) ELSE AfterWriteError(done)]
  /\ lastWrite' = w
  /\ synced' = IF ok THEN [synced EXCEPT ![k] = rs.rec] ELSE synced
  /\ scen' = [scen EXCEPT ![k] = Follow(@, w)]
  /\ observed' = IF ok THEN [observed EXCEPT ![k] = @ \cup {rs.rec.status}] ELSE observed

WriteOk(r) ==
  /\ WriteRecord(r, TRUE)
  /\ UNCHANGED <<clock, overlap, cfg, started, fails>>

WriteFail(r) ==
  /\ fails < MaxFail
  /\ fails' = fails + 1
  /\ WriteRecord(r, FALSE)
  /\ UNCHANGED <<clock, overlap, cfg, started>>

\* the for loop is exhausted: the function returns
EndSync(r) ==
  /\ run[r].pc = "sync"
  /\ run[r].i > Len(run[r].items)
  /\ run' = [run EXCEPT ![r] = [@ EXCEPT !.pc = "next"]]
  /\ UNCHANGED <<store, clock, overlap, cfg, started, fails, lastWrite, synced, scen, observed>>

Next ==
  \E r \in Runs :
    \/ Start(r)
    \/ ConfigExit(r)
    \/ FetchPage(r)
    \/ FetchFail(r)
    \/ FetchReturn(r)
    \/ ProjectThrow(r)
    \/ ReadExisting(r)
    \/ ReadFail(r)
    \/ WriteOk(r)
    \/ WriteFail(r)
    \/ EndSync(r)
    \/ NextProject(r)

Spec == Init /\ [][Next]_vars
SpecPag == InitPag /\ [][Next]_vars
SpecProj == InitProj /\ [][Next]_vars
SpecSeed == InitSeed /\ [][Next]_vars
SpecKey == InitKey /\ [][Next]_vars
SpecMain == InitMain /\ [][Next]_vars
SpecRace == InitRace /\ [][Next]_vars

TypeOK ==
  /\ \A k \in Keys : Len(store[k]) <= 1 \/ overlap
  /\ clock \in Nat

(* ------------------------------------------------------------------ *)
(* Properties                                                           *)
(* ------------------------------------------------------------------ *)
Has(data, f) == f \in DOMAIN data
WriteStep(r) == run[r].pc = "write" /\ run'[r].pc # "write"

\* C1: with runs executed one after another, a stored start_time that is
\* set keeps its value in every later step, and so does a stored end_time.
C1_TimestampsNeverOverwritten ==
  [][\A k \in Keys : \A j \in 1..Len(store[k]) :
       /\ Len(store'[k]) >= j
       /\ store[k][j].start_time # NullTime
            => store'[k][j].start_time = store[k][j].start_time
       /\ store[k][j].end_time # NullTime
            => store'[k][j].end_time = store[k][j].end_time]_vars

\* C1 witness: a successful update observing "In progress" at a later clock
\* value has been applied to a record whose start_time was already set.
C1_Witness ==
  /\ lastWrite.op = "update" /\ lastWrite.ok
  /\ lastWrite.status = "In progress"
  /\ lastWrite.before[1].start_time # NullTime
  /\ lastWrite.before[1].end_time # NullTime
  /\ AdjustedTime(clock - 1) # lastWrite.before[1].start_time

\* C2: an update of an existing record carries status and updated_at exactly
\* when the stored status differs from the record's status, and in any step
\* the stored updated_at of an existing record changes only if its stored
\* status changes.
C2_UpdatedAtOnlyOnStatusChange ==
  [][/\ \A r \in Runs :
          (WriteStep(r) /\ run[r].existingIssue # NoRow) =>
             LET k == run[r].rec.issueNumber
                 differs == store[k][1].status # run[r].rec.status
             IN /\ lastWrite'.op = "update"
                /\ (Has(lastWrite'.data, "status") <=> differs)
                /\ (Has(lastWrite'.data, "updated_at") <=> differs)
     /\ \A k \in Keys :
          (Len(store[k]) = 1 /\ Len(store'[k]) = 1
             /\ store'[k][1].updated_at # store[k][1].updated_at)
            => store'[k][1].status # store[k][1].status]_vars

\* C2 witness: a successful update that observed the stored status, at a
\* later clock value than the stored updated_at.
C2_Witness ==
  /\ lastWrite.op = "update" /\ lastWrite.ok
  /\ lastWrite.before[1].status = lastWrite.status
  /\ ToIST(clock - 1) # lastWrite.before[1].updated_at
  /\ store[lastWrite.key][1].updated_at = lastWrite.before[1].updated_at

\* C3: when the record of a successful write equals the record of the
\* previous successful write for the same issue number, the rows of that
\* issue number after the write equal the rows before it, in every column.
C3_SecondRunIdentical ==
  (lastWrite.ok /\ lastWrite.again) => store[lastWrite.key] = lastWrite.before

\* C3 witness: the same "In progress" record written twice from no record,
\* the second write at a later clock value.
C3_Witness ==
  /\ lastWrite.ok /\ lastWrite.again
  /\ scen[1] # Off /\ Len(scen[1]) = 2
  /\ store[1][1].updated_at # ToIST(clock - 1)

OnScenario(k, n) == scen[k] # Off /\ Len(scen[k]) >= n

\* C4: from no record, successful writes observing "In progress",
\* "In progress", "Done": the first is an insert with start_time and
\* updated_at and without end_time; the second an update without status,
\* updated_at and start_time; the third an update with end_time, status and
\* updated_at and without start_time, and the stored start_time is still the
\* value of the first write.
C4_EndToEndScenario ==
  \A k \in Keys :
    /\ OnScenario(k, 1) =>
         LET d == scen[k][1].data IN
           /\ scen[k][1].op = "insert"
           /\ Has(d, "start_time") /\ ~Has(d, "end_time") /\ Has(d, "updated_at")
           /\ scen[k][1].before = <<>>
    /\ OnScenario(k, 2) =>
         LET d == scen[k][2].data IN
           /\ scen[k][2].op = "update"
           /\ ~Has(d, "status") /\ ~Has(d, "updated_at") /\ ~Has(d, "start_time")
    /\ OnScenario(k, 3) =>
         LET d == scen[k][3].data IN
           /\ scen[k][3].op = "update"
           /\ Has(d, "end_time") /\ Has(d, "status") /\ Has(d, "updated_at")
           /\ ~Has(d, "start_time")
           /\ (lastWrite = scen[k][3] =>
                 /\ store[k][1].start_time = scen[k][1].data.start_time
                 /\ store[k][1].end_time = d.end_time
                 /\ store[k][1].status = "Done")

\* C4 witness: the third write of the scenario has just been applied.
C4_Witness ==
  /\ OnScenario(1, 3)
  /\ lastWrite = scen[1][3]
  /\ scen[1][3].data.end_time # scen[1][1].data.start_time

RECURSIVE ConcatPages(_)
ConcatPages(log) ==
  IF log = <<>> THEN <<>> ELSE Head(log).nodes \o ConcatPages(Tail(log))

Fetched(rs) == rs.pc \in {"sync", "write", "next"} /\ ~rs.fetchFailed

\* C5: while no fetch has failed, the first request carries the null cursor,
\* every later request carries the end cursor of the previous response, and
\* the list handed to the sync loop is the concatenation of the pages in
\* arrival order.
C5_PaginationComplete ==
  \A r \in Runs :
    LET rs == run[r] IN
      ~rs.fetchFailed =>
        /\ \A n \in 1..Len(rs.fetchLog) :
             rs.fetchLog[n].cursor =
               IF n = 1 THEN NullCursor ELSE rs.fetchLog[n - 1].endCursor
        /\ rs.pc = "fetch" => rs.allNodes = ConcatPages(rs.fetchLog)
        /\ Fetched(rs) =>
             /\ Len(rs.items) = Len(ConcatPages(rs.fetchLog))
             /\ rs.items = MapItems(ConcatPages(rs.fetchLog))

\* C5 witness: three pages of sizes 2, 2, 1 have been fetched and the list
\* of five items, not all equal, is being synchronised.
C5_Witness ==
  LET rs == run[1] IN
    /\ rs.pc = "sync" /\ Len(rs.fetchLog) = 3
    /\ Len(rs.fetchLog[1].nodes) = 2 /\ Len(rs.fetchLog[2].nodes) = 2
    /\ Len(rs.fetchLog[3].nodes) = 1
    /\ Len(rs.items) = 5
    /\ rs.items[1] # rs.items[2] /\ rs.items[4] # rs.items[5]

\* C6: once a page fetch of a collection has failed, the run is in main's
\* catch with no items returned and has issued no store read or write for
\* the collection.
C6_FetchFailureSkipsCollection ==
  \A r \in Runs :
    run[r].fetchFailed =>
      /\ run[r].pc = "next"
      /\ run[r].items = <<>>
      /\ run[r].ops = <<>>

\* C6 witness: the third page fetch failed after two pages with items.
C6_Witness ==
  LET rs == run[1] IN
    /\ rs.fetchFailed /\ Len(rs.fetchLog) = 3
    /\ rs.fetchLog[1].nodes # <<>> /\ rs.fetchLog[2].nodes # <<>>

WasRead(rs, i) == \E m \in 1..Len(rs.ops) : rs.ops[m].op = "read" /\ rs.ops[m].i = i

\* C7: a step in which a store operation fails leaves the store unchanged,
\* and when the processing of a collection ends, every record after a
\* record on which a store operation failed has been read.
C7_StoreFailureIsolated ==
  [][\A r \in Runs :
       /\ (run[r].pc \in {"sync", "write"} /\ fails' # fails) => store' = store
       /\ (run[r].pc = "sync" /\ run'[r].pc = "next") =>
            \A n \in 1..Len(run'[r].ops) :
              ~run'[r].ops[n].ok =>
                \A i \in (run'[r].ops[n].i + 1)..Len(run'[r].items) : WasRead(run'[r], i)]_vars

\* C8: projection never throws; an item without content or without an
\* assignee list is projected to the assignee list <<"Unassigned">>; and
\* when the processing of a fetched collection ends every item has been read.
C8_ProjectionTotal ==
  \A r \in Runs :
    LET rs == run[r] IN
      /\ ~rs.threw
      /\ rs.pc = "write" =>
           LET c == rs.items[rs.i].content IN
             (IF c = NullContent THEN TRUE ELSE c.assignees = NoAssignees)
               => rs.rec.assignees = <<"Unassigned">>
      /\ (rs.pc = "next" /\ ~rs.fetchFailed) =>
           \A i \in 1..Len(rs.items) : WasRead(rs, i)

Recognised(fname) == \E sl \in Slots : ToLowerCase(fname) = ToLowerCase(sl.label)
NoRecognisedField(item) ==
  \A n \in 1..Len(item.fieldValues) : ~Recognised(item.fieldValues[n].field)

\* C9 as claimed: every write issued for an item without a recognised custom
\* field carries every custom-field slot, at its default.
C9_EverySlotInPayload ==
  (lastWrite.op # "none" /\ NoRecognisedField(lastWrite.item)) =>
    \A sl \in Slots :
      /\ lastWrite.rec[sl.local] = sl.default
      /\ Has(lastWrite.data, sl.column)
      /\ lastWrite.data[sl.column] = sl.default

\* C9 as amended: for every write issued for an item without a recognised
\* custom field, the projected record has every custom-field slot at its
\* default, the payload carries every slot other than status at its default,
\* and it carries status "No Status" unless it is an update of a record
\* whose stored status is already "No Status", where status is omitted.
C9_DefaultsFilled ==
  (lastWrite.op # "none" /\ NoRecognisedField(lastWrite.item)) =>
    \A sl \in Slots :
      /\ lastWrite.rec[sl.local] = sl.default
      /\ IF Has(lastWrite.data, sl.column)
         THEN lastWrite.data[sl.column] = sl.default
         ELSE /\ sl.column = "status"
              /\ lastWrite.op = "update"
              /\ lastWrite.before[1].status = sl.default

\* C9 witness: an update issued for an item without fields, whose payload
\* has no status.
C9_Witness ==
  /\ lastWrite.op = "update" /\ lastWrite.ok
  /\ lastWrite.item.fieldValues = <<>>
  /\ ~Has(lastWrite.data, "status")
  /\ Has(lastWrite.data, "priority")

SlotPayload(node, sl) == IF sl.kind = "text" THEN node.text ELSE node.name

\* C10: in every write, a field whose name equals a slot's label ignoring
\* case and which carries a payload is projected into the slot, and a status
\* field so named with payload "In progress" puts start_time in the payload
\* when the record has none.
C10_CaseInsensitiveMatch ==
  lastWrite.op # "none" =>
    \A sl \in Slots : \A n \in 1..Len(lastWrite.item.fieldValues) :
      LET node == lastWrite.item.fieldValues[n] IN
        (ToLowerCase(node.field) = ToLowerCase(sl.label) /\ ~Falsy(SlotPayload(node, sl)))
          => /\ lastWrite.rec[sl.local] = SlotPayload(node, sl)
             /\ (sl.column = "status" /\ SlotPayload(node, sl) = "In progress"
                   /\ (lastWrite.before = <<>> \/ lastWrite.before[1].start_time = NullTime))
                  => Has(lastWrite.data, "start_time")

\* C11: with runs executed one after another, after every step every issue
\* number has at most one row, and a step that issues an insert is taken by a
\* run whose last store operation is the answered read of the same item and
\* issue number, which returned no row, while the table holds no row for it.
C11_OneRecordPerIssue ==
  [][/\ \A k \in Keys : Len(store'[k]) <= 1
     /\ \A r \in Runs :
          (WriteStep(r) /\ lastWrite'.op = "insert") =>
             LET k == run[r].rec.issueNumber
                 ops == run[r].ops
             IN /\ run[r].existingIssue = NoRow
                /\ ops # <<>>
                /\ ops[Len(ops)] = [op |-> "read", i |-> run[r].i, key |-> k, ok |-> TRUE]
                /\ lastWrite'.key = k
                /\ store[k] = <<>>]_vars

\* C11 witness: after a failure, in a later run, an insert for issue 1 has
\* succeeded and both issue numbers have one row.
C11_Witness ==
  /\ lastWrite.op = "insert" /\ lastWrite.ok /\ lastWrite.key = 1
  /\ fails >= 1 /\ started >= 2
  /\ Len(store[1]) = 1 /\ Len(store[2]) = 1

OthersUnchanged(k) == \A j \in Keys \ {k} : store'[j] = store[j]

\* C12: a read that returns no row is followed by exactly one insert whose
\* payload carries the issue number; a read that returns a row is followed by
\* exactly one update of the rows of that issue number, which adds no row; a
\* read that fails is followed by the next item, with the table unchanged;
\* and no write changes the rows of another issue number.
C12_ReadOutcomeDecidesPath ==
  [][\A r \in Runs :
       LET rs == run[r]
           k == rs.rec.issueNumber
           ops == run'[r].ops
       IN
       /\ (WriteStep(r) /\ rs.existingIssue = NoRow) =>
            /\ ops = Append(rs.ops, [op |-> "insert", i |-> rs.i, key |-> k,
                                     ok |-> lastWrite'.ok])
            /\ lastWrite'.op = "insert"
            /\ Has(lastWrite'.data, "issue_number")
            /\ lastWrite'.data["issue_number"] = k
            /\ IF lastWrite'.ok
               THEN /\ Len(store'[k]) = Len(store[k]) + 1
                    /\ store'[k][Len(store'[k])].issue_number = k
               ELSE store'[k] = store[k]
            /\ OthersUnchanged(k)
       /\ (WriteStep(r) /\ rs.existingIssue # NoRow) =>
            /\ ops = Append(rs.ops, [op |-> "update", i |-> rs.i, key |-> k,
                                     ok |-> lastWrite'.ok])
            /\ lastWrite'.op = "update"
            /\ rs.existingIssue.issue_number = k
            /\ Len(store'[k]) = Len(store[k])
            /\ \A j \in 1..Len(store[k]) : store'[k][j].issue_number = k
            /\ OthersUnchanged(k)
       /\ (rs.pc = "sync" /\ Len(ops) > Len(rs.ops) /\ ~ops[Len(ops)].ok) =>
            /\ store' = store
            /\ lastWrite' = lastWrite
            /\ run'[r].pc = "sync" /\ run'[r].i = rs.i + 1
       /\ \A m \in 1..Len(ops) :
            IF ops[m].op = "read"
            THEN m > 1 => ops[m - 1].i < ops[m].i
            ELSE /\ m > 1
                 /\ ops[m - 1] = [op |-> "read", i |-> ops[m].i, key |-> ops[m].key,
                                  ok |-> TRUE]]_vars

\* C12 witness: in one run the read of the first item failed and the second
\* item, whose issue number was inserted by an earlier run, was updated.
C12_Witness ==
  LET o == run[1].ops IN
    /\ Len(o) = 3
    /\ o[1].op = "read" /\ ~o[1].ok
    /\ o[3].op = "update" /\ o[3].ok
    /\ lastWrite.op = "update" /\ lastWrite.ok
    /\ Len(store[o[3].key]) = 1

UpTo(n) == [i \in 1..n |-> i]

\* C13: a run enters the collections of the configured list one at a time in
\* list order, a failure while fetching or reconciling a collection is
\* caught and is followed by the next collection of the list, and when main
\* ends every collection of the list has been entered, in list order.
C13_FailureDoesNotStopLaterCollections ==
  [][\A r \in Runs :
       LET rs == run[r]
           n == Len(cfg.projectNumbers)
       IN
       /\ rs.pc \notin {"idle", "exited"} =>
            /\ rs.visited = UpTo(Len(rs.visited))
            /\ Len(rs.visited) <= n
            /\ rs.pc # "done" => rs.p = Len(rs.visited)
       /\ rs.pc = "done" => rs.visited = UpTo(n)
       /\ (rs.pc \in {"fetch", "sync"} /\ (run'[r].fetchFailed \/ run'[r].threw)) =>
            /\ run'[r].pc = "next"
            /\ run'[r].p = rs.p
       /\ (rs.pc = "next" /\ run'[r] # rs) =>
            IF rs.p < n
            THEN /\ run'[r].pc = "fetch" /\ run'[r].p = rs.p + 1
                 /\ run'[r].hasNextPage /\ run'[r].cursor = NullCursor
                 /\ run'[r].allNodes = <<>>
            ELSE run'[r].pc = "done" /\ run'[r].exitCode = 0]_vars

\* C13 witness: main has ended after the first collection of the list failed
\* and a later collection was fetched and written to the table.
C13_Witness ==
  /\ run[1].pc = "done"
  /\ 1 \in run[1].caught
  /\ Len(cfg.projectNumbers) \notin run[1].caught
  /\ Len(run[1].visited) = Len(cfg.projectNumbers)
  /\ Len(cfg.projectNumbers) >= 2
  /\ lastWrite.op = "insert" /\ lastWrite.ok

Missing(env) == \E n \in EnvNames : env[n] = Undef \/ env[n] = ""

\* C14: a process started with PAT, SUPABASE_URL or SUPABASE_KEY undefined
\* or empty has exit status 1 and has issued no page fetch, no read and no
\* write, and the step in which it ends leaves the table unchanged; a
\* process that fetches, reads or writes has all three values.
C14_MissingConfigExits ==
  [][\A r \in Runs :
       LET rs == run'[r] IN
       /\ (rs.pc # "idle" /\ Missing(rs.env)) =>
            /\ rs.pc = "exited"
            /\ rs.exitCode = 1
            /\ rs.fetchLog = <<>> /\ rs.ops = <<>> /\ rs.visited = <<>>
       /\ (rs.pc = "exited" /\ run[r].pc # "exited") =>
            /\ store' = store /\ lastWrite' = lastWrite /\ clock' = clock
       /\ rs.pc \in {"fetch", "sync", "write", "next", "done"} => ~Missing(rs.env)]_vars

\* C14 witness: after a run that wrote a row, a process started with the
\* token set and an empty SUPABASE_KEY has ended with status 1.
C14_Witness ==
  /\ run[1].pc = "exited"
  /\ run[1].env["PAT"] = "v" /\ run[1].env["SUPABASE_URL"] = "v"
  /\ run[1].env["SUPABASE_KEY"] = ""
  /\ run[1].exitCode = 1
  /\ started = 2
  /\ Len(store[1]) = 1

\* C15: the normalised creation time of every fetched item denotes the
\* instant of its createdAt, its string carries the designation +05:30, and
\* the updated_at of an insert denotes the instant at which new Date() was
\* taken.
C15_NormalisationPreservesInstant ==
  \A r \in Runs :
    /\ \A i \in 1..Len(run[r].items) :
         LET c == run[r].items[i].content IN
           (c # NullContent /\ c.createdAt # NullTime) =>
             /\ c.createdAtIST = c.createdAt
             /\ ToISOString(c.createdAt + IST_OFFSET_MIN).offset = IST_OFFSET_MIN
    /\ (run[r].pc = "write" /\ run[r].existingIssue = NoRow) =>
         InsertData(run[r].rec, run[r].now)["updated_at"] = run[r].now

Overwritten(old, new, c) == old[c] # NullTime /\ new[c] # old[c]

\* a write by run r whose read no longer describes the table
StaleWrite(r, k) ==
  /\ WriteStep(r) /\ run[r].rec.issueNumber = k
  /\ run[r].existingIssue # SelectSingle(store[k])

\* C16: with runs that may overlap, the read is a step that leaves the
\* table unchanged and keeps what it found, the write is a later step whose
\* start_time and end_time follow what the read found and not what the table
\* holds, and a set start_time or end_time is overwritten, or a second row of
\* an issue number inserted, only by a write whose read is stale.
C16_ReadAndWriteAreSeparateSteps ==
  [][/\ \A r \in Runs :
          LET rs == run[r]  found == rs.existingIssue IN
          /\ (rs.pc = "sync" /\ run'[r].pc = "write") =>
               /\ store' = store
               /\ run'[r].existingIssue = SelectSingle(store[run'[r].rec.issueNumber])
          /\ WriteStep(r) =>
               /\ Has(lastWrite'.data, "start_time") <=>
                    (rs.rec.status = "In progress"
                       /\ (found = NoRow \/ found.start_time = NullTime))
               /\ Has(lastWrite'.data, "end_time") <=>
                    (rs.rec.status = "Done"
                       /\ (found = NoRow \/ found.end_time = NullTime))
     /\ \A k \in Keys :
          /\ Len(store'[k]) >= Len(store[k])
          /\ (\E j \in 1..Len(store[k]) :
                 \/ Overwritten(store[k][j], store'[k][j], "start_time")
                 \/ Overwritten(store[k][j], store'[k][j], "end_time"))
               => \E r \in Runs : StaleWrite(r, k)
          /\ (Len(store[k]) = 1 /\ Len(store'[k]) > Len(store[k]))
               => \E r \in Runs : StaleWrite(r, k)]_vars

\* C16 witness: two runs read the same row without start_time before either
\* wrote; both observed "In progress", and the second update has replaced
\* the start_time stored by the first.
C16_Witness ==
  /\ lastWrite.op = "update" /\ lastWrite.ok
  /\ Len(lastWrite.before) = 1
  /\ lastWrite.before[1].start_time # NullTime
  /\ Has(lastWrite.data, "start_time")
  /\ store[lastWrite.key][1].start_time # lastWrite.before[1].start_time

\* the other lost update of C16: two runs read no row before either wrote,
\* and both inserts have been applied
DoubleInsert ==
  /\ lastWrite.op = "insert" /\ lastWrite.ok
  /\ Len(lastWrite.before) = 1
  /\ Len(store[lastWrite.key]) = 2

IsWrite(o) == o.op \in {"insert", "update"}

\* C17: within a run no store operation is issued while pages are being
\* fetched; the store operations are issued item by item in the order of
\* the fetched pages, each read directly after the write or the failed read
\* of the item before it and each write directly after the read of its own
\* item; and every operation carries the issue number of the item at its
\* position in the concatenation of the pages.
C17_SequentialInPaginationOrder ==
  \A r \in Runs :
    LET rs == run[r]
        ops == rs.ops
        fetched == ConcatPages(rs.fetchLog)
    IN
    /\ rs.pc = "fetch" => ops = <<>>
    /\ rs.pc \in {"sync", "write"} => ~rs.hasNextPage /\ Len(rs.items) = Len(fetched)
    /\ rs.pc = "write" => /\ ops # <<>>
                          /\ ops[Len(ops)] = [op |-> "read", i |-> rs.i,
                                               key |-> rs.rec.issueNumber, ok |-> TRUE]
    /\ (rs.pc = "sync" /\ ops # <<>>) =>
         /\ ops[Len(ops)].i = rs.i - 1
         /\ IsWrite(ops[Len(ops)]) \/ ~ops[Len(ops)].ok
    /\ \A m \in 1..Len(ops) :
         /\ ops[m].i \in 1..Len(fetched)
         /\ fetched[ops[m].i].content # NullContent
         /\ ops[m].key = fetched[ops[m].i].content.number
         /\ IF ops[m].op = "read"
            THEN IF m = 1 THEN ops[m].i = 1
                 ELSE /\ ops[m - 1].i = ops[m].i - 1
                      /\ IsWrite(ops[m - 1]) \/ ~ops[m - 1].ok
            ELSE /\ m > 1
                 /\ ops[m - 1].op = "read" /\ ops[m - 1].ok
                 /\ ops[m - 1].i = ops[m].i

\* C17 witness: two pages with one item each, of different issue numbers,
\* have been fetched and both items read and inserted, in that order.
C17_Witness ==
  LET rs == run[1] IN
    /\ Len(rs.fetchLog) = 2 /\ Len(rs.ops) = 4
    /\ rs.ops[2].op = "insert" /\ rs.ops[2].i = 1 /\ rs.ops[2].ok
    /\ rs.ops[4].op = "insert" /\ rs.ops[4].i = 2 /\ rs.ops[4].ok
    /\ rs.ops[2].key # rs.ops[4].key

\* C18: the payload of a write has start_time exactly when the status of the
\* record is "In progress" and the read returned no row or a row whose
\* start_time is unset, whatever the status of that row; its value is the
\* adjusted time of the item; and a successful update observing
\* "In progress" of a row whose status is already "In progress" and whose
\* start_time is unset sets start_time.
C18_StartTimeIffUnset ==
  [][\A r \in Runs :
       WriteStep(r) =>
         LET rs == run[r]
             k == rs.rec.issueNumber
             found == rs.existingIssue
             d == lastWrite'.data
         IN
         /\ Has(d, "start_time") <=>
              (rs.rec.status = "In progress"
                 /\ (found = NoRow \/ found.start_time = NullTime))
         /\ Has(d, "start_time") => d["start_time"] = AdjustedTime(rs.now)
         /\ (lastWrite'.ok /\ found # NoRow /\ found.status = "In progress"
               /\ found.start_time = NullTime /\ rs.rec.status = "In progress") =>
              /\ ~Has(d, "status")
              /\ store'[k][1].start_time = AdjustedTime(rs.now)
              /\ store'[k][1].status = "In progress"]_vars

\* C18 witness: a successful update observing "In progress" of a row whose
\* status was already "In progress" and whose start_time was unset; the row
\* now has start_time.
C18_Witness ==
  /\ lastWrite.op = "update" /\ lastWrite.ok
  /\ lastWrite.status = "In progress"
  /\ lastWrite.before[1].status = "In progress"
  /\ lastWrite.before[1].start_time = NullTime
  /\ ~Has(lastWrite.data, "status")
  /\ store[lastWrite.key][1].start_time # NullTime

\* C19: the payload of a write has end_time exactly when the status of the
\* record is "Done" and the read returned no row or a row whose end_time is
\* unset, whether or not start_time is set; its value is the adjusted time
\* of the item; and a successful update observing "In progress" of a row
\* with end_time set and start_time unset sets start_time and leaves
\* end_time as it was.
C19_EndTimeIffUnset ==
  [][\A r \in Runs :
       WriteStep(r) =>
         LET rs == run[r]
             k == rs.rec.issueNumber
             found == rs.existingIssue
             d == lastWrite'.data
         IN
         /\ Has(d, "end_time") <=>
              (rs.rec.status = "Done" /\ (found = NoRow \/ found.end_time = NullTime))
         /\ Has(d, "end_time") => d["end_time"] = AdjustedTime(rs.now)
         /\ (lastWrite'.ok /\ rs.rec.status = "Done" /\ found = NoRow) =>
              /\ store'[k][1].end_time = AdjustedTime(rs.now)
              /\ store'[k][1].start_time = NullTime
         /\ (lastWrite'.ok /\ found # NoRow /\ found.end_time # NullTime
               /\ found.start_time = NullTime /\ rs.rec.status = "In progress") =>
              /\ store'[k][1].start_time = AdjustedTime(rs.now)
              /\ store'[k][1].end_time = found.end_time]_vars

\* C19 witness: a row inserted as "Done", with end_time and without
\* start_time, has been updated by a later run observing "In progress": it
\* has start_time, later than its unchanged end_time.
C19_Witness ==
  /\ lastWrite.op = "update" /\ lastWrite.ok
  /\ lastWrite.status = "In progress"
  /\ lastWrite.before[1].end_time # NullTime
  /\ lastWrite.before[1].start_time = NullTime
  /\ store[lastWrite.key][1].start_time > lastWrite.before[1].end_time
  /\ store[lastWrite.key][1].end_time = lastWrite.before[1].end_time

\* a stored start_time (end_time) is set only if a successful write for the
\* issue number observed "In progress" ("Done")
TimestampsObserved ==
  \A k \in Keys : \A j \in 1..Len(store'[k]) :
    /\ store'[k][j].start_time # NullTime => "In progress" \in observed'[k]
    /\ store'[k][j].end_time # NullTime => "Done" \in observed'[k]

NumbersOf(items) ==
  {items[i].content.number : i \in {n \in 1..Len(items) : items[n].content # NullContent}}

\* C21: in every step every issue number keeps its rows, each with its issue
\* number; the payload of an update has no issue_number; and the rows of an
\* issue number change only in a write step of a run for an item of that
\* number, which is among the items of the run.
C21_NoDeleteNoRekey ==
  [][/\ \A k \in Keys :
          /\ Len(store'[k]) >= Len(store[k])
          /\ \A j \in 1..Len(store[k]) :
               /\ store[k][j].issue_number = k
               /\ store'[k][j].issue_number = k
          /\ store'[k] # store[k] =>
               \E r \in Runs :
                 /\ WriteStep(r)
                 /\ run[r].rec.issueNumber = k
                 /\ k \in NumbersOf(run[r].items)
     /\ \A r \in Runs :
          (WriteStep(r) /\ run[r].existingIssue # NoRow) =>
             /\ lastWrite'.op = "update"
             /\ ~Has(lastWrite'.data, "issue_number")]_vars

\* C21 witness: a later run whose items do not include issue 2 has updated
\* the row of issue 1, and the row of issue 2 written by an earlier run is
\* still in the table.
C21_Witness ==
  /\ lastWrite.op = "update" /\ lastWrite.ok /\ lastWrite.key = 1
  /\ started >= 2
  /\ run[1].pc = "sync" /\ NumbersOf(run[1].items) = {1}
  /\ Len(store[1]) = 1 /\ Len(store[2]) = 1
  /\ store[2][1].issue_number = 2

\* C22: a run issues no page fetch once a response has reported no further
\* page: it leaves the loop with the pages fetched so far and the log of
\* requests stays as it is while the items are reconciled; every request
\* before that follows a response that reported a further page; and when
\* the reconciliation of a fetched collection ends, every fetched item has
\* been read.
C22_StopsAtLastPageAndProcessesAll ==
  [][\A r \in Runs :
       LET rs == run[r] IN
       /\ (rs.pc = "fetch" /\ ~rs.hasNextPage /\ run'[r] # rs) =>
            /\ run'[r].fetchLog = rs.fetchLog
            /\ run'[r].pc \in {"sync", "next"}
            /\ run'[r].items = MapItems(ConcatPages(rs.fetchLog))
       /\ rs.pc \in {"sync", "write"} =>
            /\ ~rs.hasNextPage
            /\ run'[r].pc \in {"sync", "write", "next"}
            /\ run'[r].fetchLog = rs.fetchLog
       /\ (rs.pc = "fetch" /\ Len(run'[r].fetchLog) > Len(rs.fetchLog)) =>
            /\ rs.hasNextPage
            /\ Len(run'[r].fetchLog) = Len(rs.fetchLog) + 1
       /\ (rs.pc = "sync" /\ run'[r].pc = "next") =>
            \A i \in 1..Len(ConcatPages(rs.fetchLog)) : WasRead(run'[r], i)]_vars

====
